---- MODULE Spec2Model ----
(***************************************************************************)
(* Model of the baja static-site compiler: the directory walk (node.go,    *)
(* package baja), the document pipeline NewNode / Parse / FindTheme /      *)
(* Compile in its two implementations (node.go, package baja, and the      *)
(* package node file), and index generation (TreeNode.Compile).            *)
(*                                                                         *)
(* Go strings are modelled as sequences of one-character strings, so that  *)
(* strings.Split, strings.LastIndex, slicing, filepath.Dir / Base / Clean  *)
(* are computed character by character as the Go library computes them.    *)
(***************************************************************************)
EXTENDS Integers, Sequences, FiniteSets, TLC

(***************************************************************************)
(* Bounds of the model.                                                    *)
(***************************************************************************)
\* largest number of fields strings.Split(content, "+++") yields for a file
MaxParts == 4
\* largest number of regular files in the content tree
MaxFiles == 3

(***************************************************************************)
(* String literals of the program.                                         *)
(***************************************************************************)
\* a nil *NodeMeta
NIL == [nil |-> TRUE, Theme |-> << >>, Category |-> << >>]
EMPTY == << >>
SLASH == <<"/">>
DOT == <<".">>
DELIM == <<"+", "+", "+">>
CONTENT == <<"c", "o", "n", "t", "e", "n", "t">>
PUBLIC == <<"p", "u", "b", "l", "i", "c">>
THEMES == <<"t", "h", "e", "m", "e", "s">>
BAJA == <<"b", "a", "j", "a">>
HTML == <<".", "h", "t", "m", "l">>
NODE_HTML == <<"n", "o", "d", "e">> \o HTML
INDEX_HTML == <<"i", "n", "d", "e", "x">> \o HTML
LAYOUT_DEFAULT == <<"l", "a", "y", "o", "u", "t", "/", "d", "e", "f", "a", "u", "l", "t">> \o HTML

(***************************************************************************)
(* Go string library.                                                      *)
(***************************************************************************)
\* s[lo:hi] is legal in Go iff 0 <= lo <= hi <= len(s); otherwise it panics
SliceOK(s, lo, hi) == 0 <= lo /\ lo <= hi /\ hi <= Len(s)

Slice(s, lo, hi) == SubSeq(s, lo + 1, hi)

HasPrefixAt(s, i, sep) ==
    /\ i + Len(sep) - 1 <= Len(s)
    /\ SubSeq(s, i, i + Len(sep) - 1) = sep

\* 1-based position of the first occurrence of sep in s, 0 when there is none
Index(s, sep) ==
    LET hits == {i \in 1..Len(s) : HasPrefixAt(s, i, sep)}
    IN  IF hits = {} THEN 0 ELSE CHOOSE i \in hits : \A j \in hits : i <= j

\* strings.LastIndex: 0-based byte offset of the last occurrence, -1 if none
LastIndex(s, sep) ==
    LET hits == {i \in 1..Len(s) : HasPrefixAt(s, i, sep)}
    IN  IF hits = {} THEN -1 ELSE (CHOOSE i \in hits : \A j \in hits : i >= j) - 1

RECURSIVE Split(_, _)
\* strings.Split for a non-empty separator: left to right, non-overlapping
Split(s, sep) ==
    LET i == Index(s, sep)
    IN  IF i = 0 THEN <<s>>
        ELSE <<SubSeq(s, 1, i - 1)>> \o Split(SubSeq(s, i + Len(sep), Len(s)), sep)

RECURSIVE Join(_, _)
\* strings.Join
Join(parts, sep) ==
    IF Len(parts) = 0 THEN EMPTY
    ELSE IF Len(parts) = 1 THEN parts[1]
    ELSE parts[1] \o sep \o Join(Tail(parts), sep)

\* number of non-overlapping occurrences of sep in s
Count(s, sep) == Len(Split(s, sep)) - 1

RECURSIVE CleanParts(_, _, _)
\* the element loop of filepath.Clean: "" and "." are dropped, ".." removes
\* the element before it (and is kept at the front of a relative path)
CleanParts(parts, out, rooted) ==
    IF Len(parts) = 0 THEN out
    ELSE LET p == parts[1]
             rest == Tail(parts)
         IN  IF p = EMPTY \/ p = DOT THEN CleanParts(rest, out, rooted)
             ELSE IF p = <<".", ".">>
                  THEN IF Len(out) > 0 /\ out[Len(out)] # <<".", ".">>
                       THEN CleanParts(rest, SubSeq(out, 1, Len(out) - 1), rooted)
                       ELSE IF rooted THEN CleanParts(rest, out, rooted)
                       ELSE CleanParts(rest, Append(out, p), rooted)
             ELSE CleanParts(rest, Append(out, p), rooted)

\* filepath.Clean
Clean(path) ==
    IF path = EMPTY THEN DOT
    ELSE LET rooted == path[1] = "/"
             body == Join(CleanParts(Split(path, SLASH), << >>, rooted), SLASH)
         IN  IF rooted THEN SLASH \o body
             ELSE IF body = EMPTY THEN DOT ELSE body

\* filepath.Dir: everything up to the last separator, cleaned
Dir(path) == Clean(Slice(path, 0, LastIndex(path, SLASH) + 1))

RECURSIVE StripTrailingSlashes(_)
StripTrailingSlashes(path) ==
    IF Len(path) > 0 /\ path[Len(path)] = "/"
    THEN StripTrailingSlashes(SubSeq(path, 1, Len(path) - 1))
    ELSE path

\* filepath.Base
Base(path) ==
    IF path = EMPTY THEN DOT
    ELSE LET p == StripTrailingSlashes(path)
             q == Slice(p, LastIndex(p, SLASH) + 1, Len(p))
         IN  IF q = EMPTY THEN SLASH ELSE q

\* filepath.Join of a directory and an entry name, as filepath.Walk forms paths
JoinPath(dir, name) == Clean(dir \o SLASH \o name)

\* the elements of a sequence
Range(s) == {s[i] : i \in 1..Len(s)}

(***************************************************************************)
(* The file system the program reads.                                      *)
(***************************************************************************)
\* the root filepath.Walk is given (node.go:171); Walk hands it on unchanged
WalkRoot == <<".", "/">> \o CONTENT

\* directory entries that may exist under the content root, in the order
\* filepath.Walk visits them (lexical, a directory before its entries):
\* parent is the position of the containing directory (0: the content root)
Universe ==
    << [name |-> <<".", "m">>,      isDir |-> FALSE, parent |-> 0],
       [name |-> <<"a">>,           isDir |-> FALSE, parent |-> 0],
       [name |-> <<"a", ".", "m">>, isDir |-> FALSE, parent |-> 0],
       [name |-> <<"a", ".", "t">>, isDir |-> FALSE, parent |-> 0],
       [name |-> <<"d">>,           isDir |-> TRUE,  parent |-> 0],
       [name |-> <<"a", ".", "m">>, isDir |-> FALSE, parent |-> 5] >>

RECURSIVE EntryPath(_)
\* the path Walk passes to the callback: filepath.Join(directory, name)
EntryPath(i) ==
    IF i = 0 THEN WalkRoot
    ELSE JoinPath(EntryPath(Universe[i].parent), Universe[i].name)

\* the sets of entries that form a directory tree of at most MaxFiles files
Trees ==
    {t \in SUBSET (1..Len(Universe)) :
        /\ \A i \in t : Universe[i].parent # 0 => Universe[i].parent \in t
        /\ Cardinality({i \in t : ~Universe[i].isDir}) <= MaxFiles}

RECURSIVE WalkFrom(_, _)
\* the sequence of callback invocations of filepath.Walk over tree t
WalkFrom(t, i) ==
    IF i > Len(Universe) THEN << >>
    ELSE (IF i \in t THEN <<[path |-> EntryPath(i), isDir |-> Universe[i].isDir,
                             name |-> Universe[i].name]>>
          ELSE << >>) \o WalkFrom(t, i + 1)

WalkOf(t) == <<[path |-> WalkRoot, isDir |-> TRUE, name |-> CONTENT]>> \o WalkFrom(t, 1)

\* Config.Theme, the default theme name
DefaultTheme == BAJA

ThemeRoot == THEMES \o SLASH \o DefaultTheme

\* template files that may exist under the theme root
ThemeUniverse ==
    { ThemeRoot \o SLASH \o LAYOUT_DEFAULT,
      ThemeRoot \o SLASH \o NODE_HTML,
      ThemeRoot \o SLASH \o <<"a">> \o HTML,
      ThemeRoot \o SLASH \o <<"d">> \o SLASH \o NODE_HTML }

\* the fields a source text is assembled from
Fields == { <<"b">>, <<"t", "=", "m">> }

\* source texts: 1..MaxParts fields joined by the delimiter
Contents ==
    UNION { {Join(ps, DELIM) : ps \in [1..n -> Fields]} : n \in 1..MaxParts }

(***************************************************************************)
(* State.                                                                  *)
(***************************************************************************)
VARIABLES
    impl,        \* which Node implementation the walk builds: "baja" | "node"
    walk,        \* the entries filepath.Walk hands to the callback, in order
    themeFiles,  \* the template files that exist on disk
    idx,         \* position of the walk in walk
    pc,          \* position inside the callback / the run
    cur,         \* the Node under construction (n)
    NodeDB,      \* the Site Index: base directory -> sequence of nodes
    public,      \* output files: path given to os.Create -> source that wrote it
    indexed,     \* keys of NodeDB the range loop of TreeNode.Compile has done
    allNodes,    \* allNodes of TreeNode.Compile
    calls        \* the BuildIndex calls made so far

vars == <<impl, walk, themeFiles, idx, pc, cur, NodeDB, public, indexed, allNodes, calls>>

NoNode == [Path |-> EMPTY, BaseDirectory |-> EMPTY, Name |-> EMPTY, Meta |-> NIL,
           Body |-> EMPTY, Raw |-> EMPTY, templatePaths |-> << >>,
           readErr |-> FALSE, created |-> FALSE, tplErr |-> FALSE, execErr |-> FALSE]

\* a function with one more (or one replaced) key
Put(f, k, v) == [q \in DOMAIN f \cup {k} |-> IF q = k THEN v ELSE f[q]]

Get(f, k) == IF k \in DOMAIN f THEN f[k] ELSE << >>

WalkFinished == pc = "visit" /\ idx > Len(walk)

Init ==
    /\ impl \in {"baja", "node"}
    /\ walk \in {WalkOf(t) : t \in Trees}
    /\ themeFiles \in SUBSET ThemeUniverse
    /\ idx = 1
    /\ pc = "visit"
    /\ cur = NoNode
    /\ NodeDB = << >>
    /\ public = << >>
    /\ indexed = {}
    /\ allNodes = << >>
    /\ calls = << >>

(***************************************************************************)
(* NewNode.                                                                *)
(***************************************************************************)
\* n.BaseDirectory: the directory of path without its first element
BaseDirectoryOf(path) == Join(Tail(Split(Dir(path), SLASH)), SLASH)

\* the string NewNode cuts the name from: the whole path (package baja),
\* the file name (package node)
NameSource(im, path) == IF im = "baja" THEN path ELSE Base(path)

\* dotPosition
DotPosition(im, path) == LastIndex(NameSource(im, path), DOT)

\* the slice expression [0:dotPosition] panics when dotPosition is -1
NewNodePanics(im, path) ==
    ~SliceOK(NameSource(im, path), 0, DotPosition(im, path))

NewNode(im, path) ==
    [NoNode EXCEPT !.Path = path,
                   !.BaseDirectory = BaseDirectoryOf(path),
                   !.Name = Slice(NameSource(im, path), 0, DotPosition(im, path))]

(***************************************************************************)
(* Parse.                                                                  *)
(***************************************************************************)
\* toml.Decode into NodeMeta, reduced to the key the pipeline reads back
\* (package baja's NodeMeta has no Theme; the date fields are left out):
\* theme is the text after "t=", a text without that key leaves it zero
Decode(im, text) ==
    LET i == Index(text, <<"t", "=">>)
    IN  [nil |-> FALSE,
         Theme |-> IF im = "baja" \/ i = 0 THEN EMPTY
                   ELSE SubSeq(text, i + 2, Len(text)),
         Category |-> EMPTY]

\* fewer than three split fields: log.Fatal
ParseFatal(content) == Len(Split(content, DELIM)) < 3

\* the node after a successful read of content
Parsed(im, n, content) ==
    LET part == Split(content, DELIM)
        meta == Decode(im, part[2])
    IN  [n EXCEPT !.Raw = content,
                  !.Meta = IF im = "baja" THEN meta
                           ELSE [meta EXCEPT !.Category = n.BaseDirectory],
                  !.Body = part[3]]

(***************************************************************************)
(* Permalink.                                                              *)
(***************************************************************************)
Permalink(im, n) ==
    IF im = "baja" THEN n.BaseDirectory \o SLASH \o Base(n.Name)
    ELSE IF n.BaseDirectory = EMPTY THEN SLASH \o Base(n.Name) \o SLASH
    ELSE SLASH \o n.BaseDirectory \o SLASH \o Base(n.Name) \o SLASH

(***************************************************************************)
(* FindTheme.                                                              *)
(***************************************************************************)
\* os.Stat(path) returns no error
Exists(path) == path \in themeFiles

\* the string whose "/"-separated elements drive the lookup loop
CascadeSource(im, n) == IF im = "baja" THEN n.Name ELSE n.BaseDirectory

RECURSIVE Cascade(_, _, _, _)
\* the loop of FindTheme: probe lookupPath, then extend it by one element
Cascade(im, n, comps, lookupPath) ==
    IF Len(comps) = 0 THEN << >>
    ELSE (IF Exists(lookupPath \o SLASH \o NODE_HTML)
          THEN <<lookupPath \o SLASH \o NODE_HTML>> ELSE << >>)
         \o (IF im = "node" /\ Exists(lookupPath \o SLASH \o n.Name \o HTML)
             THEN <<lookupPath \o SLASH \o n.Name \o HTML>> ELSE << >>)
         \o Cascade(im, n, Tail(comps), lookupPath \o SLASH \o comps[1])

DefaultLayout == THEMES \o SLASH \o DefaultTheme \o SLASH \o LAYOUT_DEFAULT

\* templatePaths before the theme override is looked at
CascadePaths(im, n) ==
    <<DefaultLayout>>
    \o Cascade(im, n, Split(CascadeSource(im, n), SLASH), THEMES \o SLASH \o DefaultTheme)

\* Theme.NodePath: the template file of a theme override
NodePath(name) == ThemeRoot \o SLASH \o name \o HTML

\* n.Meta.Theme is read through a nil Meta (package node only)
FindThemePanics(im, n) == im = "node" /\ n.Meta = NIL

\* FindTheme with the theme override put in front of the list
\* (a faulty variant, used to test the sensitivity of C9)
FindTheme_OverrideFirst(im, n) ==
    [n EXCEPT !.templatePaths =
        IF im = "node" /\ n.Meta # NIL /\ n.Meta.Theme # EMPTY
        THEN <<NodePath(n.Meta.Theme)>> \o CascadePaths(im, n)
        ELSE CascadePaths(im, n)]

FindTheme(im, n) ==
    [n EXCEPT !.templatePaths =
        IF im = "node" /\ n.Meta # NIL /\ n.Meta.Theme # EMPTY
        THEN Append(CascadePaths(im, n), NodePath(n.Meta.Theme))
        ELSE CascadePaths(im, n)]

(***************************************************************************)
(* Compile.                                                                *)
(***************************************************************************)
\* directory without the name segment
\* (a faulty variant, used to test the sensitivity of C5)
OutDirectory_NoName(im, n) ==
    IF im = "baja" THEN PUBLIC \o SLASH \o n.BaseDirectory
    ELSE PUBLIC \o SLASH \o n.BaseDirectory

\* directory
OutDirectory(im, n) ==
    IF im = "baja" THEN PUBLIC \o SLASH \o Join(Tail(Split(n.Name, SLASH)), SLASH)
    ELSE PUBLIC \o SLASH \o n.BaseDirectory \o SLASH \o n.Name

\* the path given to os.Create
OutPath(im, n) == OutDirectory(im, n) \o SLASH \o INDEX_HTML

\* the files tpl.ParseFiles is given
TemplateFiles(im, n) ==
    IF im = "baja"
    THEN <<DefaultLayout, ThemeRoot \o SLASH \o NODE_HTML>>
    ELSE n.templatePaths

\* ParseFiles can succeed only if every file of the theme tree it names exists
CanParseTemplates(im, n) ==
    \A i \in 1..Len(TemplateFiles(im, n)) :
        TemplateFiles(im, n)[i] \in ThemeUniverse => Exists(TemplateFiles(im, n)[i])

\* does a failed tpl.Execute end the process?  package baja: log.Println;
\* package node: log.Panic()...Msg(), which panics
ExecErrorPanics(im) == im = "node"

\* what the index keeps of a node (its identity and the fields listings read)
Ref(n) == [Path |-> n.Path, BaseDirectory |-> n.BaseDirectory, Name |-> n.Name]

(***************************************************************************)
(* Actions: the WalkFunc returned by visit.                                *)
(***************************************************************************)
\* f.IsDir(): the key is reset only if it is already present
VisitDir ==
    /\ pc = "visit" /\ idx <= Len(walk) /\ walk[idx].isDir
    /\ NodeDB' = IF walk[idx].path \in DOMAIN NodeDB
                 THEN Put(NodeDB, walk[idx].path, << >>)
                 ELSE NodeDB
    /\ idx' = idx + 1
    /\ UNCHANGED <<impl, walk, themeFiles, pc, cur, public, indexed, allNodes, calls>>

\* a file: NewNode sets Path, BaseDirectory and Name, or panics on the slice
VisitFile ==
    /\ pc = "visit" /\ idx <= Len(walk) /\ ~walk[idx].isDir
    /\ IF NewNodePanics(impl, walk[idx].path)
       THEN pc' = "panic" /\ cur' = [NoNode EXCEPT !.Path = walk[idx].path]
       ELSE pc' = "parse" /\ cur' = NewNode(impl, walk[idx].path)
    /\ UNCHANGED <<impl, walk, themeFiles, idx, NodeDB, public, indexed, allNodes, calls>>

\* n.Parse(): read the file, split it, decode the front matter
Parse ==
    /\ pc = "parse"
    /\ \E readable \in BOOLEAN, content \in Contents :
        IF ~readable
        THEN /\ cur' = [cur EXCEPT !.readErr = TRUE]
             /\ pc' = IF impl = "baja" THEN "fatal" ELSE "theme"
        ELSE IF ParseFatal(content)
        THEN /\ cur' = [cur EXCEPT !.Raw = content]
             /\ pc' = "fatal"
        ELSE /\ cur' = Parsed(impl, cur, content)
             /\ pc' = "theme"
    /\ UNCHANGED <<impl, walk, themeFiles, idx, NodeDB, public, indexed, allNodes, calls>>

\* n.FindTheme(...)
FindThemeStep ==
    /\ pc = "theme"
    /\ cur' = FindTheme(impl, cur)
    /\ pc' = IF FindThemePanics(impl, cur) THEN "panic" ELSE "compile"
    /\ UNCHANGED <<impl, walk, themeFiles, idx, NodeDB, public, indexed, allNodes, calls>>

\* n.Compile(): create the output file, parse the templates, execute, flush.
\* A failed os.Create is logged and the run goes on without an output file.
\* A failed ParseFiles ends the process in both packages: package baja calls
\* log.Panic, package node goes on to tpl.Execute with the nil template.
Compile ==
    /\ pc = "compile"
    /\ \E createOK \in BOOLEAN, parseOK \in BOOLEAN, execOK \in BOOLEAN :
        /\ parseOK => CanParseTemplates(impl, cur)
        /\ ~parseOK => execOK
        /\ public' = IF createOK THEN Put(public, OutPath(impl, cur), cur.Path)
                     ELSE public
        /\ cur' = [cur EXCEPT !.created = createOK, !.tplErr = ~parseOK,
                              !.execErr = ~execOK]
        /\ pc' = IF ~parseOK THEN "panic"
                 ELSE IF ~execOK /\ ExecErrorPanics(impl) THEN "panic"
                 ELSE "append"
    /\ UNCHANGED <<impl, walk, themeFiles, idx, NodeDB, indexed, allNodes, calls>>

\* NodeDB[n.BaseDirectory] = append(NodeDB[n.BaseDirectory], n); return nil
AppendNode ==
    /\ pc = "append"
    /\ NodeDB' = Put(NodeDB, cur.BaseDirectory,
                     Append(Get(NodeDB, cur.BaseDirectory), Ref(cur)))
    /\ idx' = idx + 1
    /\ pc' = "visit"
    /\ cur' = NoNode
    /\ UNCHANGED <<impl, walk, themeFiles, public, indexed, allNodes, calls>>

(***************************************************************************)
(* Actions: TreeNode.Compile, index generation.                            *)
(***************************************************************************)
\* the loop body with allNodes assigned instead of appended to
\* (a faulty variant, used to test the sensitivity of C8)
IndexDir_Overwrite ==
    /\ WalkFinished \/ pc = "index"
    /\ \E dir \in DOMAIN NodeDB \ indexed :
        /\ calls' = Append(calls, [dir |-> dir, nodes |-> NodeDB[dir], all |-> FALSE])
        /\ allNodes' = NodeDB[dir]
        /\ indexed' = indexed \cup {dir}
    /\ pc' = "index"
    /\ UNCHANGED <<impl, walk, themeFiles, idx, cur, NodeDB, public>>

\* one iteration of the range loop over NodeDB (Go leaves the order open)
IndexDir ==
    /\ WalkFinished \/ pc = "index"
    /\ \E dir \in DOMAIN NodeDB \ indexed :
        /\ calls' = Append(calls, [dir |-> dir, nodes |-> NodeDB[dir], all |-> FALSE])
        /\ allNodes' = allNodes \o NodeDB[dir]
        /\ indexed' = indexed \cup {dir}
    /\ pc' = "index"
    /\ UNCHANGED <<impl, walk, themeFiles, idx, cur, NodeDB, public>>

\* BuildIndex("", allNodes, true) after the loop
IndexAll ==
    /\ WalkFinished \/ pc = "index"
    /\ indexed = DOMAIN NodeDB
    /\ calls' = Append(calls, [dir |-> EMPTY, nodes |-> allNodes, all |-> TRUE])
    /\ pc' = "done"
    /\ UNCHANGED <<impl, walk, themeFiles, idx, cur, NodeDB, public, indexed, allNodes>>

Next ==
    \/ VisitDir
    \/ VisitFile
    \/ Parse
    \/ FindThemeStep
    \/ Compile
    \/ AppendNode
    \/ IndexDir
    \/ IndexAll

Spec == Init /\ [][Next]_vars

(***************************************************************************)
(* Properties.                                                             *)
(***************************************************************************)
\* the callback is past NewNode for the file it was handed
Built == cur.Path # EMPTY /\ ~(pc = "panic" /\ NewNodePanics(impl, cur.Path))

\* FindTheme has returned for the current node
Resolved == pc \in {"compile", "append"}

Terminated == pc \in {"panic", "fatal"}

\* C1: (as claimed) when the source file cannot be read, the document's later
\* steps neither dereference the nil Meta nor end the process
C1_UnreadableIsNonFatal ==
    (impl = "node" /\ cur.readErr) => (cur.Meta = NIL /\ ~Terminated)

\* C2: (as claimed) when the templates parse and execution fails, Compile
\* returns and the process goes on
C2_ExecFailureIsNonFatal ==
    (cur.execErr /\ ~cur.tplErr) => ~Terminated

\* the text after the second occurrence of the delimiter
AfterSecond(content) ==
    LET i1 == Index(content, DELIM)
        rest == SubSeq(content, i1 + Len(DELIM), Len(content))
        i2 == Index(rest, DELIM)
    IN  SubSeq(rest, i2 + Len(DELIM), Len(rest))

\* the text between the first and the second occurrence of the delimiter
BetweenFirstAndSecond(content) ==
    LET i1 == Index(content, DELIM)
        rest == SubSeq(content, i1 + Len(DELIM), Len(content))
        i2 == Index(rest, DELIM)
    IN  SubSeq(rest, 1, i2 - 1)

\* C3: (as claimed) for a source text with at least two delimiters, Body is
\* everything after the second delimiter, verbatim, and the front matter is
\* decoded from the text between the first and the second delimiter
C3_BodyIsEverythingAfterSecond ==
    (impl = "node" /\ cur.Meta # NIL /\ Count(cur.Raw, DELIM) >= 2) =>
        /\ cur.Body = AfterSecond(cur.Raw)
        /\ cur.Meta.Theme = Decode(impl, BetweenFirstAndSecond(cur.Raw)).Theme

\* the elements of the base directory d1/.../dk (none when it is empty)
BaseComponents(n) ==
    IF n.BaseDirectory = EMPTY THEN << >> ELSE Split(n.BaseDirectory, SLASH)

\* cascade level j: themes/T/d1/.../dj
Level(n, j) ==
    IF j = 0 THEN ThemeRoot
    ELSE ThemeRoot \o SLASH \o Join(SubSeq(BaseComponents(n), 1, j), SLASH)

RECURSIVE ExpectedCascade(_, _)
\* node.html then N.html of every level j..k at which the file exists
ExpectedCascade(n, j) ==
    IF j > Len(BaseComponents(n)) THEN << >>
    ELSE (IF Level(n, j) \o SLASH \o NODE_HTML \in themeFiles
          THEN <<Level(n, j) \o SLASH \o NODE_HTML>> ELSE << >>)
         \o (IF Level(n, j) \o SLASH \o n.Name \o HTML \in themeFiles
             THEN <<Level(n, j) \o SLASH \o n.Name \o HTML>> ELSE << >>)
         \o ExpectedCascade(n, j + 1)

\* templatePaths without the default layout and without the theme override
CascadePart(n) ==
    SubSeq(n.templatePaths, 2,
           IF n.Meta.Theme # EMPTY THEN Len(n.templatePaths) - 1
           ELSE Len(n.templatePaths))

\* C4: (as claimed) after the default layout the list holds node.html and
\* N.html of every cascade level themes/T .. themes/T/d1/.../dk at which the
\* file exists, in depth order, and nothing else from the cascade
C4_CascadeCoversEveryLevel ==
    (impl = "node" /\ Resolved) => CascadePart(cur) = ExpectedCascade(cur, 0)

\* the pairs of distinct documents of one base directory
SameDirPairs ==
    {p \in UNION { {<<k, i, j>> : i, j \in 1..Len(NodeDB[k])} : k \in DOMAIN NodeDB } :
        p[2] # p[3]}

\* C5: (as claimed) any two distinct source files of one base directory are
\* compiled to distinct output paths
C5_DistinctFilesDistinctOutputs ==
    \A p \in SameDirPairs :
        OutPath(impl, NodeDB[p[1]][p[2]]) # OutPath(impl, NodeDB[p[1]][p[3]])

\* C5 (amended): two documents of one base directory whose Names differ are
\* compiled to distinct output paths, and between two documents a document
\* whose Name no other document of its base directory has still owns the
\* output file it created
C5_DistinctNamesDistinctOutputs ==
    \A p \in SameDirPairs :
        LET a == NodeDB[p[1]][p[2]]
            b == NodeDB[p[1]][p[3]]
        IN  /\ a.Name # b.Name => OutPath(impl, a) # OutPath(impl, b)
            /\ ( /\ cur = NoNode
                 /\ \A j \in 1..Len(NodeDB[p[1]]) :
                       j # p[2] => NodeDB[p[1]][j].Name # a.Name
                 /\ OutPath(impl, a) \in DOMAIN public )
               => public[OutPath(impl, a)] = a.Path

\* C5 witness: two documents of one base directory with different Names have
\* both been compiled and have both created their output file
C5_Witness ==
    /\ impl = "node"
    /\ \E p \in SameDirPairs :
        /\ NodeDB[p[1]][p[2]].Name # NodeDB[p[1]][p[3]].Name
        /\ OutPath(impl, NodeDB[p[1]][p[2]]) \in DOMAIN public
        /\ OutPath(impl, NodeDB[p[1]][p[3]]) \in DOMAIN public

NoDoubleSlash(s) == Index(s, <<"/", "/">>) = 0

\* C6: (as claimed) Permalink is "/" name "/" for an empty base directory,
\* "/" baseDirectory "/" name "/" otherwise, and has no double slash
C6_PermalinkShape ==
    (impl = "node" /\ Built) =>
        /\ Permalink(impl, cur) =
              IF cur.BaseDirectory = EMPTY THEN SLASH \o cur.Name \o SLASH
              ELSE SLASH \o cur.BaseDirectory \o SLASH \o cur.Name \o SLASH
        /\ NoDoubleSlash(Permalink(impl, cur))

\* the directories the walk has visited
VisitedDirs == {walk[i].path : i \in {j \in 1..(idx - 1) : j <= Len(walk) /\ walk[j].isDir}}

\* the keys a directory may be filed under: its path as the walk reports it,
\* or the base directory of the files directly inside it
DirKeys(path) == {path, BaseDirectoryOf(JoinPath(path, <<"x">>))}

\* C7: (as claimed) after the walk the Site Index has an entry for every
\* directory the walk visited
C7_EveryVisitedDirHasEntry ==
    (WalkFinished \/ pc \in {"index", "done"}) =>
        \A d \in VisitedDirs : DirKeys(d) \cap DOMAIN NodeDB # {}

\* the positions of calls that are per-directory calls for key k
CallsFor(k) == {i \in 1..Len(calls) : ~calls[i].all /\ calls[i].dir = k}

\* all documents of the Site Index
AllDocs == UNION {Range(NodeDB[k]) : k \in DOMAIN NodeDB}

Occurrences(seq, e) == Cardinality({i \in 1..Len(seq) : seq[i] = e})

\* the calls of a finished index generation
CallsComplete ==
    /\ Len(calls) = Cardinality(DOMAIN NodeDB) + 1
    /\ \A k \in DOMAIN NodeDB :
        /\ Cardinality(CallsFor(k)) = 1
        /\ \A i \in CallsFor(k) : calls[i].nodes = NodeDB[k] /\ i < Len(calls)
    /\ \A i \in 1..Len(calls) : calls[i].all <=> i = Len(calls)
    /\ \A e \in AllDocs : Occurrences(calls[Len(calls)].nodes, e) = 1
    /\ Range(calls[Len(calls)].nodes) = AllDocs

InIndexGeneration == WalkFinished \/ pc \in {"index", "done"}

\* C8: index generation calls BuildIndex once per key of the Site Index with
\* that key's documents and the flag false, then once with the flag true and
\* every document exactly once, and never changes the Site Index
C8_IndexGeneration ==
    /\ [](pc = "done" => CallsComplete)
    /\ [][InIndexGeneration => NodeDB' = NodeDB]_vars

\* C8 witness: index generation finished over two keys, one with two documents
C8_Witness ==
    /\ pc = "done"
    /\ Cardinality(DOMAIN NodeDB) >= 2
    /\ \E k \in DOMAIN NodeDB : Len(NodeDB[k]) >= 2

\* C9: for a parsed document the template list starts with the default
\* layout, and a declared theme override is its last entry
C9_DefaultFirstOverrideLast ==
    (impl = "node" /\ Resolved /\ cur.Meta # NIL) =>
        /\ Len(cur.templatePaths) >= 1
        /\ cur.templatePaths[1] = THEMES \o SLASH \o DefaultTheme \o SLASH \o LAYOUT_DEFAULT
        /\ cur.Meta.Theme # EMPTY =>
              cur.templatePaths[Len(cur.templatePaths)] = NodePath(cur.Meta.Theme)

\* C9 witness: a document with a theme override and a cascade template is
\* resolved while the default layout file does not exist
C9_Witness ==
    /\ impl = "node" /\ Resolved
    /\ cur.Meta # NIL /\ cur.Meta.Theme # EMPTY
    /\ Len(cur.templatePaths) >= 3
    /\ DefaultLayout \notin themeFiles

\* the file name with its extension removed, a name without "." kept whole
NameWithoutExtension(filename) ==
    IF LastIndex(filename, DOT) = -1 THEN filename
    ELSE Slice(filename, 0, LastIndex(filename, DOT))

\* C10: (as claimed) for every file the walk hands over, NewNode does not
\* abort, and Name is the file name without its extension and is not empty
C10_NameFromAnyFilename ==
    (cur.Path # EMPTY) =>
        /\ ~(pc = "panic" /\ NewNodePanics(impl, cur.Path))
        /\ cur.Name = NameWithoutExtension(Base(cur.Path))
        /\ cur.Name # EMPTY
====
